---- MODULE Spec2Model ----
(***************************************************************************)
(* Account domain of the ERP backend: classification model, Account        *)
(* entity, AccountRepository over the accounts table, and the Tauri        *)
(* commands that drive them.  Commands run as independent asynchronous     *)
(* tasks; every storage statement is one atomic step, and the in-memory    *)
(* work between two awaits is a step of its own.                           *)
(***************************************************************************)
EXTENDS Integers, Sequences, FiniteSets, Bags, TLC

VARIABLES
    accounts,      \* the accounts table: id -> AccountDto row
    issued,        \* ids Uuid::new_v4 has handed out
    now,           \* the wall clock read by Utc::now() and NOW()
    inflight,      \* bag of the commands suspended between two awaits
    lastResult,    \* what the most recently completed command returned
    incSum,        \* history: per id, sum of the increments applied
    overwritten,   \* history: ids whose row a general update has written
    deleted,       \* history: ids for which delete has completed
    nCommands,     \* number of commands issued so far
    call,          \* a classification function called on its own
    held,          \* an Account held in memory outside any command
    form           \* the account form of the frontend's AccountsComponent

vars == <<accounts, issued, now, inflight, lastResult, incSum, overwritten,
          deleted, nCommands, call, held, form>>

----------------------------------------------------------------------------
(* Bounds *)

MaxTime == 1
MaxCommands == 3
MaxLowered == 2

\* Uuid values.  NilUuid is the all-zero UUID: well formed, never produced
\* by new_v4 (a v4 UUID carries version bits).  No run creates more
\* accounts than it issues commands.
NilUuid == 0
Uuids == 0..MaxCommands

None == <<>>
Some(x) == <<x>>
Unwrap(o) == o[1]
unwrap_or(o, default) == IF o = None THEN default ELSE o[1]

----------------------------------------------------------------------------
(* Text.  A string is a sequence of one-character strings. *)

\* characters outside ASCII, by code point: LATIN SMALL LETTER LONG S, LATIN
\* SMALL LETTER DOTLESS I, LATIN SMALL LETTER SHARP S
LongS == "U+017F"
DotlessI == "U+0131"
SharpS == "U+00DF"

\* the upper case of the lower-case letters that have a one-character one
Upper ==
    [c \in {"a","b","c","d","e","f","g","h","i","j","k","l","m",
             "n","o","p","q","r","s","t","u","v","w","x","y","z",
             LongS, DotlessI} |->
        CASE c = "a" -> "A" [] c = "b" -> "B" [] c = "c" -> "C"
          [] c = "d" -> "D" [] c = "e" -> "E" [] c = "f" -> "F"
          [] c = "g" -> "G" [] c = "h" -> "H" [] c = "i" -> "I"
          [] c = "j" -> "J" [] c = "k" -> "K" [] c = "l" -> "L"
          [] c = "m" -> "M" [] c = "n" -> "N" [] c = "o" -> "O"
          [] c = "p" -> "P" [] c = "q" -> "Q" [] c = "r" -> "R"
          [] c = "s" -> "S" [] c = "t" -> "T" [] c = "u" -> "U"
          [] c = "v" -> "V" [] c = "w" -> "W" [] c = "x" -> "X"
          [] c = "y" -> "Y" [] c = "z" -> "Z"
          [] c = LongS -> "S" [] c = DotlessI -> "I"]

UpperChar(c) == IF c \in DOMAIN Upper THEN Upper[c] ELSE c

\* char::to_uppercase: the characters c becomes (the sharp s becomes two)
UpperChars(c) == IF c = SharpS THEN <<"S", "S">> ELSE <<UpperChar(c)>>

RECURSIVE UpperAll(_)
UpperAll(s) ==
    IF s = <<>> THEN <<>> ELSE UpperChars(Head(s)) \o UpperAll(Tail(s))

\* str::to_uppercase: character by character
to_uppercase(s) ==
    IF \E i \in 1..Len(s) : s[i] = SharpS
    THEN UpperAll(s)
    ELSE [i \in 1..Len(s) |-> UpperChar(s[i])]

T_ASSET == <<"A","S","S","E","T">>
T_LIABILITY == <<"L","I","A","B","I","L","I","T","Y">>
T_EQUITY == <<"E","Q","U","I","T","Y">>
T_REVENUE == <<"R","E","V","E","N","U","E">>
T_EXPENSE == <<"E","X","P","E","N","S","E">>

T_CURRENT == <<"C","U","R","R","E","N","T">>
T_FIXED == <<"F","I","X","E","D">>
T_OTHER == <<"O","T","H","E","R">>
T_LONG_TERM == <<"L","O","N","G","_","T","E","R","M">>
T_OWNER == <<"O","W","N","E","R">>
T_RETAINED_EARNINGS ==
    <<"R","E","T","A","I","N","E","D","_","E","A","R","N","I","N","G","S">>
T_OPERATING == <<"O","P","E","R","A","T","I","N","G">>
T_NON == <<"N","O","N">>
Us(a, b) == a \o <<"_">> \o b

\* the tokens of the categories
T_CURRENT_ASSET == Us(T_CURRENT, T_ASSET)
T_FIXED_ASSET == Us(T_FIXED, T_ASSET)
T_OTHER_ASSET == Us(T_OTHER, T_ASSET)
T_CURRENT_LIABILITY == Us(T_CURRENT, T_LIABILITY)
T_LONG_TERM_LIABILITY == Us(T_LONG_TERM, T_LIABILITY)
T_OTHER_LIABILITY == Us(T_OTHER, T_LIABILITY)
T_OWNER_EQUITY == Us(T_OWNER, T_EQUITY)
T_OPERATING_REVENUE == Us(T_OPERATING, T_REVENUE)
T_NON_OPERATING_REVENUE == Us(T_NON, Us(T_OPERATING, T_REVENUE))
T_OPERATING_EXPENSE == Us(T_OPERATING, T_EXPENSE)
T_NON_OPERATING_EXPENSE == Us(T_NON, Us(T_OPERATING, T_EXPENSE))

----------------------------------------------------------------------------
(* Classification model: models/account.rs *)

AccountType == {"Asset", "Liability", "Equity", "Revenue", "Expense"}

AccountCategory ==
    {"CurrentAsset", "FixedAsset", "OtherAsset",
     "CurrentLiability", "LongTermLiability", "OtherLiability",
     "OwnerEquity", "RetainedEarnings",
     "OperatingRevenue", "NonOperatingRevenue",
     "OperatingExpense", "NonOperatingExpense"}

\* impl fmt::Display for AccountType
AccountType_to_string(t) ==
    CASE t = "Asset" -> T_ASSET
      [] t = "Liability" -> T_LIABILITY
      [] t = "Equity" -> T_EQUITY
      [] t = "Revenue" -> T_REVENUE
      [] t = "Expense" -> T_EXPENSE

\* from_str that compares the text as it is written
AccountType_from_str_exact(s) ==
    CASE s = T_ASSET -> Some("Asset")
      [] s = T_LIABILITY -> Some("Liability")
      [] s = T_EQUITY -> Some("Equity")
      [] s = T_REVENUE -> Some("Revenue")
      [] s = T_EXPENSE -> Some("Expense")
      [] OTHER -> None

\* AccountType::from_str
AccountType_from_str(s) ==
    LET u == to_uppercase(s) IN
    CASE u = T_ASSET -> Some("Asset")
      [] u = T_LIABILITY -> Some("Liability")
      [] u = T_EQUITY -> Some("Equity")
      [] u = T_REVENUE -> Some("Revenue")
      [] u = T_EXPENSE -> Some("Expense")
      [] OTHER -> None

is_debit_normal(t) == t \in {"Asset", "Expense"}

\* is_credit_normal as the negation of "is an asset"
is_credit_normal_not_asset(t) == t # "Asset"

is_credit_normal(t) == t \in {"Liability", "Equity", "Revenue"}

\* Display that writes the variant name in capitals, the words run together
AccountCategory_to_string_joined(c) ==
    CASE c = "CurrentAsset" -> T_CURRENT \o T_ASSET
      [] c = "FixedAsset" -> T_FIXED \o T_ASSET
      [] c = "OtherAsset" -> T_OTHER \o T_ASSET
      [] c = "CurrentLiability" -> T_CURRENT \o T_LIABILITY
      [] c = "LongTermLiability" ->
            <<"L","O","N","G","T","E","R","M">> \o T_LIABILITY
      [] c = "OtherLiability" -> T_OTHER \o T_LIABILITY
      [] c = "OwnerEquity" -> T_OWNER \o T_EQUITY
      [] c = "RetainedEarnings" ->
            <<"R","E","T","A","I","N","E","D","E","A","R","N","I","N","G","S">>
      [] c = "OperatingRevenue" -> T_OPERATING \o T_REVENUE
      [] c = "NonOperatingRevenue" -> T_NON \o T_OPERATING \o T_REVENUE
      [] c = "OperatingExpense" -> T_OPERATING \o T_EXPENSE
      [] c = "NonOperatingExpense" -> T_NON \o T_OPERATING \o T_EXPENSE

\* impl fmt::Display for AccountCategory
AccountCategory_to_string(c) ==
    CASE c = "CurrentAsset" -> T_CURRENT_ASSET
      [] c = "FixedAsset" -> T_FIXED_ASSET
      [] c = "OtherAsset" -> T_OTHER_ASSET
      [] c = "CurrentLiability" -> T_CURRENT_LIABILITY
      [] c = "LongTermLiability" -> T_LONG_TERM_LIABILITY
      [] c = "OtherLiability" -> T_OTHER_LIABILITY
      [] c = "OwnerEquity" -> T_OWNER_EQUITY
      [] c = "RetainedEarnings" -> T_RETAINED_EARNINGS
      [] c = "OperatingRevenue" -> T_OPERATING_REVENUE
      [] c = "NonOperatingRevenue" -> T_NON_OPERATING_REVENUE
      [] c = "OperatingExpense" -> T_OPERATING_EXPENSE
      [] c = "NonOperatingExpense" -> T_NON_OPERATING_EXPENSE

\* AccountCategory::from_str
AccountCategory_from_str(s) ==
    LET u == to_uppercase(s) IN
    CASE u = T_CURRENT_ASSET -> Some("CurrentAsset")
      [] u = T_FIXED_ASSET -> Some("FixedAsset")
      [] u = T_OTHER_ASSET -> Some("OtherAsset")
      [] u = T_CURRENT_LIABILITY -> Some("CurrentLiability")
      [] u = T_LONG_TERM_LIABILITY -> Some("LongTermLiability")
      [] u = T_OTHER_LIABILITY -> Some("OtherLiability")
      [] u = T_OWNER_EQUITY -> Some("OwnerEquity")
      [] u = T_RETAINED_EARNINGS -> Some("RetainedEarnings")
      [] u = T_OPERATING_REVENUE -> Some("OperatingRevenue")
      [] u = T_NON_OPERATING_REVENUE -> Some("NonOperatingRevenue")
      [] u = T_OPERATING_EXPENSE -> Some("OperatingExpense")
      [] u = T_NON_OPERATING_EXPENSE -> Some("NonOperatingExpense")
      [] OTHER -> None

\* for_account_type that lists NonOperatingExpense under Revenue as well
for_account_type_overlapping(t) ==
    CASE t = "Asset" -> <<"CurrentAsset", "FixedAsset", "OtherAsset">>
      [] t = "Liability" ->
            <<"CurrentLiability", "LongTermLiability", "OtherLiability">>
      [] t = "Equity" -> <<"OwnerEquity", "RetainedEarnings">>
      [] t = "Revenue" ->
            <<"OperatingRevenue", "NonOperatingRevenue", "NonOperatingExpense">>
      [] t = "Expense" -> <<"OperatingExpense", "NonOperatingExpense">>

\* AccountCategory::for_account_type
for_account_type(t) ==
    CASE t = "Asset" -> <<"CurrentAsset", "FixedAsset", "OtherAsset">>
      [] t = "Liability" ->
            <<"CurrentLiability", "LongTermLiability", "OtherLiability">>
      [] t = "Equity" -> <<"OwnerEquity", "RetainedEarnings">>
      [] t = "Revenue" -> <<"OperatingRevenue", "NonOperatingRevenue">>
      [] t = "Expense" -> <<"OperatingExpense", "NonOperatingExpense">>

Range(s) == {s[i] : i \in 1..Len(s)}

----------------------------------------------------------------------------
(* Identifier text.  A caller's id string is well formed in one of the     *)
(* forms Uuid::parse_str accepts, or it is not; to_string always renders   *)
(* the hyphenated form.                                                    *)

UuidForms == {"hyphenated", "simple"}

Uuid_to_string(u) == [form |-> "hyphenated", val |-> u]

EmptyText == [form |-> "empty", val |-> NilUuid]
MalformedText == [form |-> "malformed", val |-> NilUuid]

is_empty(s) == s.form = "empty"

\* Uuid::parse_str: Ok(uuid) as Some, Err as None
Uuid_parse_str(s) == IF s.form \in UuidForms THEN Some(s.val) ELSE None

----------------------------------------------------------------------------
(* Account entity and its conversions: models/account.rs *)

\* Account::new that leaves the new account inactive
AccountNewInactive(new_account, id, t) ==
    [id |-> id,
     code |-> new_account.code,
     name |-> new_account.name,
     description |-> new_account.description,
     account_type |-> new_account.account_type,
     category |-> new_account.category,
     subcategory |-> new_account.subcategory,
     is_active |-> FALSE,
     parent_id |-> new_account.parent_id,
     balance |-> 0,
     created_at |-> t,
     updated_at |-> t]

\* Account::new; id is the value of Uuid::new_v4(), t that of Utc::now()
AccountNew(new_account, id, t) ==
    [id |-> id,
     code |-> new_account.code,
     name |-> new_account.name,
     description |-> new_account.description,
     account_type |-> new_account.account_type,
     category |-> new_account.category,
     subcategory |-> new_account.subcategory,
     is_active |-> TRUE,
     parent_id |-> new_account.parent_id,
     balance |-> 0,
     created_at |-> t,
     updated_at |-> t]

\* update_balance that refuses to go below zero
AccountUpdateBalanceFloored(account, amount, t) ==
    [account EXCEPT
        !.balance = IF @ + amount < 0 THEN 0 ELSE @ + amount,
        !.updated_at = t]

\* Account::update_balance; balances and amounts are Decimals of scale 2,
\* counted in cents; t is the value of Utc::now()
AccountUpdateBalance(account, amount, t) ==
    [account EXCEPT !.balance = @ + amount, !.updated_at = t]

\* the conversion that writes the category with its words run together
DtoFromAccountJoined(account) ==
    [account EXCEPT
        !.account_type = AccountType_to_string(account.account_type),
        !.category = AccountCategory_to_string_joined(account.category)]

\* impl From<Account> for AccountDto
DtoFromAccount(account) ==
    [account EXCEPT
        !.account_type = AccountType_to_string(account.account_type),
        !.category = AccountCategory_to_string(account.category)]

\* impl From<AccountDto> for Account
AccountFromDto(dto) ==
    [dto EXCEPT
        !.account_type =
            unwrap_or(AccountType_from_str(dto.account_type), "Asset"),
        !.category =
            unwrap_or(AccountCategory_from_str(dto.category), "CurrentAsset")]

\* impl From<Account> for AccountViewModel
ViewFromAccount(account) ==
    [id |-> Uuid_to_string(account.id),
     code |-> account.code,
     name |-> account.name,
     description |-> account.description,
     account_type |-> AccountType_to_string(account.account_type),
     category |-> AccountCategory_to_string(account.category),
     subcategory |-> account.subcategory,
     is_active |-> account.is_active,
     parent_id |->
        IF account.parent_id = None THEN None
        ELSE Some(Uuid_to_string(Unwrap(account.parent_id))),
     balance |-> [decimal |-> account.balance],
     created_at |-> [rfc3339 |-> account.created_at],
     updated_at |-> [rfc3339 |-> account.updated_at]]

----------------------------------------------------------------------------
(* Account codes are digit strings; ORDER BY code compares them as text. *)

RECURSIVE LexLess(_, _)
LexLess(a, b) ==
    IF a = <<>> THEN b # <<>>
    ELSE IF b = <<>> THEN FALSE
    ELSE IF a[1] < b[1] THEN TRUE
    ELSE IF a[1] > b[1] THEN FALSE
    ELSE LexLess(Tail(a), Tail(b))

Rows(tbl) == {tbl[i] : i \in DOMAIN tbl}

RowPermutations(rows) ==
    {s \in [1..Cardinality(rows) -> rows] :
        \A i, j \in 1..Cardinality(rows) : i # j => s[i] # s[j]}

\* a SELECT with no ORDER BY: the rows in any order
Unordered(rows) == RowPermutations(rows)

\* ORDER BY code: every sequence of the rows the sort may return (rows of
\* equal code come in either order)
RECURSIVE OrderByCode(_)
OrderByCode(rows) ==
    IF rows = {} THEN {<<>>}
    ELSE LET first == {r \in rows : \A q \in rows : ~LexLess(q.code, r.code)}
         IN  UNION {{<<r>> \o rest : rest \in OrderByCode(rows \ {r})} :
                        r \in first}

Decode(dtos) == [i \in 1..Len(dtos) |-> AccountFromDto(dtos[i])]

----------------------------------------------------------------------------
(* AccountRepository: repositories/accounts.rs.  Each operator is the      *)
(* effect of the one SQL statement the method executes.                    *)

\* find_all with the ORDER BY clause left out
find_all_unordered(tbl) == {Decode(s) : s \in Unordered(Rows(tbl))}

\* find_all: the possible results
find_all(tbl) == {Decode(s) : s \in OrderByCode(Rows(tbl))}

\* find_by_id
find_by_id(tbl, id) ==
    IF id \in DOMAIN tbl THEN Some(AccountFromDto(tbl[id])) ELSE None

\* the key of the accounts table: an INSERT of an id that has a row is
\* refused
DuplicateKey(tbl, id) == id \in DOMAIN tbl

\* create: Account::new, then INSERT; err is the sqlx::Error of a refused
\* INSERT
RepoCreate(tbl, new_account, id, t) ==
    LET account == AccountNew(new_account, id, t)
        dto == DtoFromAccount(account)
    IN  IF DuplicateKey(tbl, id)
        THEN [tbl |-> tbl, account |-> account, err |-> Some("Database")]
        ELSE [tbl |-> [i \in DOMAIN tbl \cup {id} |->
                        IF i = id THEN dto ELSE tbl[i]],
              account |-> account, err |-> None]

\* update written as an upsert: inserts the row when the id is absent
RepoUpdateUpsert(tbl, account) ==
    LET dto == DtoFromAccount(account) IN
    [i \in DOMAIN tbl \cup {dto.id} |-> IF i = dto.id THEN dto ELSE tbl[i]]

\* update that sets created_at along with updated_at
RepoUpdateRestamped(tbl, account) ==
    LET dto == DtoFromAccount(account) IN
    [i \in DOMAIN tbl |->
        IF i = dto.id
        THEN [dto EXCEPT !.created_at = dto.updated_at]
        ELSE tbl[i]]

\* update: UPDATE accounts SET ... WHERE id = $1
RepoUpdate(tbl, account) ==
    LET dto == DtoFromAccount(account) IN
    [i \in DOMAIN tbl |->
        IF i = dto.id
        THEN [tbl[i] EXCEPT
                !.code = dto.code,
                !.name = dto.name,
                !.description = dto.description,
                !.account_type = dto.account_type,
                !.category = dto.category,
                !.subcategory = dto.subcategory,
                !.is_active = dto.is_active,
                !.parent_id = dto.parent_id,
                !.balance = dto.balance,
                !.updated_at = dto.updated_at]
        ELSE tbl[i]]

\* delete that also removes the rows pointing at the id
RepoDeleteCascade(tbl, id) ==
    [i \in {j \in DOMAIN tbl : j # id /\ tbl[j].parent_id # Some(id)} |->
        tbl[i]]

\* delete that leaves a row in place while other rows point at it
RepoDeleteGuarded(tbl, id) ==
    IF \E j \in DOMAIN tbl : tbl[j].parent_id = Some(id)
    THEN tbl
    ELSE [i \in DOMAIN tbl \ {id} |-> tbl[i]]

\* delete: DELETE FROM accounts WHERE id = $1
RepoDelete(tbl, id) == [i \in DOMAIN tbl \ {id} |-> tbl[i]]

\* find_children following the hierarchy below the direct children
RECURSIVE Descendants(_, _)
Descendants(tbl, ids) ==
    LET next == ids \cup {r.id : r \in
                    {q \in Rows(tbl) : \E i \in ids : q.parent_id = Some(i)}}
    IN  IF next = ids THEN ids ELSE Descendants(tbl, next)

find_children_transitive(tbl, parent_id) ==
    {Decode(s) : s \in OrderByCode(
        {r \in Rows(tbl) :
            r.id \in Descendants(tbl, {parent_id}) \ {parent_id}})}

\* find_children: WHERE parent_id = $1 ORDER BY code
find_children(tbl, parent_id) ==
    {Decode(s) : s \in OrderByCode(
        {r \in Rows(tbl) : r.parent_id = Some(parent_id)})}

\* find_roots: WHERE parent_id IS NULL ORDER BY code
find_roots(tbl) ==
    {Decode(s) : s \in OrderByCode({r \in Rows(tbl) : r.parent_id = None})}

\* update_balance that stores the amount instead of adding it
RepoUpdateBalanceOverwrite(tbl, id, amount, t) ==
    [i \in DOMAIN tbl |->
        IF i = id
        THEN [tbl[i] EXCEPT !.balance = amount, !.updated_at = t]
        ELSE tbl[i]]

\* update_balance: SET balance = balance + $2, updated_at = NOW()
RepoUpdateBalance(tbl, id, amount, t) ==
    [i \in DOMAIN tbl |->
        IF i = id
        THEN [tbl[i] EXCEPT !.balance = @ + amount, !.updated_at = t]
        ELSE tbl[i]]

----------------------------------------------------------------------------
(* Errors: error.rs.  A String built by format! is the sequence of its     *)
(* pieces.                                                                 *)

\* outcome of handing one statement to the pool: it executes, or the pool
\* gives up
DbOutcomes == {"executed", "PoolTimedOut"}

not_found(resource) == [kind |-> "NotFound", msg |-> <<resource, " not found">>]

validation_error(message) == [kind |-> "Validation", msg |-> <<message>>]

\* Error::Database(err)
DatabaseError(e) == [kind |-> "Database", msg |-> <<e>>]

\* impl From<sqlx::Error> for ErrorResponse
ErrorResponseFromSqlx(e, debug) ==
    [code |-> "DATABASE_ERROR",
     message |-> CASE e = "PoolTimedOut" -> "Database connection timeout"
                   [] e = "Database" -> "Database error"
                   [] OTHER -> "Database error occurred",
     details |-> IF debug THEN Some(<<e>>) ELSE None]

\* impl From<Error> for ErrorResponse (the variants the commands build)
ErrorResponseFromError(err, debug) ==
    CASE err.kind = "Database" -> ErrorResponseFromSqlx(err.msg[1], debug)
      [] err.kind = "Validation" ->
            [code |-> "VALIDATION_ERROR",
             message |-> "A validation error occurred",
             details |-> Some(err.msg)]
      [] err.kind = "NotFound" ->
            [code |-> "NOT_FOUND",
             message |-> "Resource not found",
             details |-> Some(err.msg)]
      [] err.kind = "Conflict" ->
            [code |-> "CONFLICT_ERROR",
             message |-> "A conflict occurred",
             details |-> Some(err.msg)]
      [] OTHER ->
            [code |-> "UNKNOWN_ERROR",
             message |-> "An unknown error occurred",
             details |-> IF debug THEN Some(err.msg) ELSE None]

\* impl From<ErrorResponse> for String
StringFromErrorResponse(r) ==
    IF r.details # None
    THEN <<r.message, ": ">> \o Unwrap(r.details)
    ELSE <<r.message>>

\* the Err(String) a command returns for an Error
ErrString(err, debug) ==
    StringFromErrorResponse(ErrorResponseFromError(err, debug))

\* format!("Invalid UUID format: {}", e)
InvalidUuidString == <<"Invalid UUID format: ", "uuid::Error">>

\* format!("Invalid parent UUID format: {}", e)
InvalidParentUuidString == <<"Invalid parent UUID format: ", "uuid::Error">>

----------------------------------------------------------------------------
(* What callers send. *)

L_asset == <<"a","s","s","e","t">>
L_Liability == <<"L","i","a","b","i","l","i","t","y">>
L_current_liability ==
    <<"c","u","r","r","e","n","t","_","l","i","a","b","i","l","i","t","y">>
L_bogus == <<"b","o","g","u","s">>

Amounts == {10050, -3025}

\* identifier strings: a known id or the nil UUID as to_string renders it,
\* the nil UUID without hyphens, the empty string, or text that is no UUID
IdTexts ==
    {Uuid_to_string(u) : u \in issued \cup {NilUuid}}
    \cup {[form |-> "simple", val |-> NilUuid], EmptyText, MalformedText}

Cash(account_type, category, parent_id) ==
    [code |-> <<1, 0, 0, 0>>, name |-> "Cash", description |-> None,
     account_type |-> account_type, category |-> category,
     subcategory |-> None, parent_id |-> parent_id]

Loans(account_type, category, parent_id) ==
    [code |-> <<2, 0, 0>>, name |-> "Loans",
     description |-> Some("Bank loans"),
     account_type |-> account_type, category |-> category,
     subcategory |-> Some("Long term"), parent_id |-> parent_id]

\* NewAccountDto values: accounts sent without parent, one of them with a
\* category of another type, two with a token no parser knows
CashDtos ==
    {Cash(L_asset, T_CURRENT_ASSET, None),
     Cash(T_ASSET, L_current_liability, None),
     Cash(L_bogus, T_CURRENT_ASSET, None),
     Cash(L_asset, L_bogus, None)}

\* an account sent with the parent reference x
LoansUnder(x) == Loans(L_Liability, L_current_liability, Some(x))

NewAccountDtos == CashDtos \cup {LoansUnder(x) : x \in IdTexts}

\* what the timed runs send: two well-formed accounts
TimedDtos ==
    {Cash(L_asset, Us(T_CURRENT, T_ASSET), None),
     Loans(L_Liability, L_current_liability, None)}

----------------------------------------------------------------------------
(* Commands: commands.rs.  A command that awaits the store twice is split  *)
(* at its awaits; between them it sits in inflight with its local account. *)

\* a suspended command: where it goes on, its local account, and the
\* account as find_by_id returned it
Task(pc, account, read) == [pc |-> pc, account |-> account, read |-> read]

Suspend(task) == inflight' = inflight (+) SetToBag({task})

Resume(task) == inflight (-) SetToBag({task})

\* The value a command hands back, with what its statement met: existed
\* (the addressed row was there when the statement ran), changed (the
\* statement altered the table), db (how the pool answered); for a command
\* that reads an account and writes it back, read (the account as it read
\* it) and met (the account the store held when its UPDATE ran).
Outcome(cmd, id, ok, val, err, existed, changed, db, read, met) ==
    lastResult' = [cmd |-> cmd, id |-> id, ok |-> ok, val |-> val,
                   err |-> err, existed |-> existed, changed |-> changed,
                   db |-> db, read |-> read, met |-> met]

Returns(cmd, id, ok, val, err, existed, changed, db) ==
    Outcome(cmd, id, ok, val, err, existed, changed, db, None, None)

Fails(cmd, id, err) ==
    Returns(cmd, id, FALSE, None, err, FALSE, FALSE, "none")

\* Err(ErrorResponse::from(Error::Database(err)).into()); the build is a
\* debug or a release build
DbFails(cmd, id, e) ==
    \E debug_assertions \in BOOLEAN :
        Returns(cmd, None, FALSE, None,
                ErrString(DatabaseError(e), debug_assertions),
                FALSE, FALSE, e)

\* the same for a statement the database refused; the row it collided with
\* was there
DbRefuses(cmd, e) ==
    \E debug_assertions \in BOOLEAN :
        Returns(cmd, None, FALSE, None,
                ErrString(DatabaseError(e), debug_assertions),
                TRUE, FALSE, e)

\* Err(ErrorResponse::from(err).into()) for a Validation or NotFound error,
\* whose details do not depend on the build
ErrFails(cmd, id, err) == Fails(cmd, id, ErrString(err, FALSE))

Views(seq) == [i \in 1..Len(seq) |-> ViewFromAccount(seq[i])]

Issue == nCommands < MaxCommands /\ nCommands' = nCommands + 1

\* Uuid::new_v4(): an id never seen before
new_v4 == CHOOSE id \in 1..MaxCommands : id \notin issued

\* the parent block without the is_empty test: every string present is
\* parsed
ParseParentNonEmpty(parent_id) ==
    IF parent_id = None THEN [ok |-> TRUE, val |-> None]
    ELSE IF Uuid_parse_str(Unwrap(parent_id)) = None
         THEN [ok |-> FALSE, val |-> None]
         ELSE [ok |-> TRUE, val |-> Uuid_parse_str(Unwrap(parent_id))]

\* the "Parse the parent ID if present" block: ok, and the parsed Option
ParseParent(parent_id) ==
    IF parent_id = None THEN [ok |-> TRUE, val |-> None]
    ELSE IF is_empty(Unwrap(parent_id)) THEN [ok |-> TRUE, val |-> None]
    ELSE IF Uuid_parse_str(Unwrap(parent_id)) = None
         THEN [ok |-> FALSE, val |-> None]
         ELSE [ok |-> TRUE, val |-> Uuid_parse_str(Unwrap(parent_id))]

\* get_accounts as the backend runs it, whoever invoked it
get_accounts_run ==
    /\ Issue
    /\ \E outcome \in DbOutcomes :
        IF outcome = "executed"
        THEN \E found \in find_all(accounts) :
                Returns("get_accounts", None, TRUE, Views(found), <<>>,
                        FALSE, FALSE, outcome)
        ELSE DbFails("get_accounts", None, outcome)
    /\ UNCHANGED <<call, held>>
    /\ UNCHANGED <<accounts, issued, now, inflight, incSum, overwritten,
                   deleted>>

get_accounts == get_accounts_run /\ UNCHANGED form

get_account(id) ==
    /\ Issue
    /\ IF Uuid_parse_str(id) = None
       THEN Fails("get_account", None, InvalidUuidString)
       ELSE LET account_id == Unwrap(Uuid_parse_str(id)) IN
            \E outcome \in DbOutcomes :
                IF outcome = "executed"
                THEN LET found == find_by_id(accounts, account_id) IN
                     Returns("get_account", Some(account_id), TRUE,
                             IF found = None THEN None
                             ELSE Some(ViewFromAccount(Unwrap(found))),
                             <<>>, found # None, FALSE, outcome)
                ELSE DbFails("get_account", Some(account_id), outcome)
    /\ UNCHANGED <<call, held, form>>
    /\ UNCHANGED <<accounts, issued, now, inflight, incSum, overwritten,
                   deleted>>

\* create_account when Uuid::new_v4() inside Account::new returns id, as the
\* backend runs it, whoever invoked it
create_account_run(new_account, id) ==
    /\ Issue
    /\ LET account_type == AccountType_from_str(new_account.account_type)
           category == AccountCategory_from_str(new_account.category)
           parent == ParseParent(new_account.parent_id)
       IN
       IF account_type = None
       THEN /\ ErrFails("create_account", None,
                        validation_error("Invalid account type"))
            /\ UNCHANGED <<accounts, issued>>
       ELSE IF category = None
       THEN /\ ErrFails("create_account", None,
                        validation_error("Invalid account category"))
            /\ UNCHANGED <<accounts, issued>>
       ELSE IF ~parent.ok
       THEN /\ Fails("create_account", None, InvalidParentUuidString)
            /\ UNCHANGED <<accounts, issued>>
       ELSE LET domain_new_account ==
                    [code |-> new_account.code,
                     name |-> new_account.name,
                     description |-> new_account.description,
                     account_type |-> Unwrap(account_type),
                     category |-> Unwrap(category),
                     subcategory |-> new_account.subcategory,
                     parent_id |-> parent.val]
            IN
            \E outcome \in DbOutcomes :
                /\ issued' = issued \cup {id}
                /\ IF outcome = "executed"
                   THEN LET made == RepoCreate(accounts, domain_new_account,
                                               id, now) IN
                        /\ accounts' = made.tbl
                        /\ IF made.err = None
                           THEN Returns("create_account", Some(id), TRUE,
                                        Some(ViewFromAccount(made.account)),
                                        <<>>, FALSE, TRUE, outcome)
                           ELSE DbRefuses("create_account", Unwrap(made.err))
                   ELSE /\ accounts' = accounts
                        /\ DbFails("create_account", Some(id), outcome)
    /\ UNCHANGED <<call, held>>
    /\ UNCHANGED <<now, inflight, incSum, overwritten, deleted>>

create_account_id(new_account, id) ==
    create_account_run(new_account, id) /\ UNCHANGED form

\* create_account: the generated id is one never issued before
create_account(new_account) == create_account_id(new_account, new_v4)

\* up to the end of repo.find_by_id(account_id).await; on Some(account) the
\* command goes on at `next`
Find(cmd, id, next) ==
    /\ Issue
    /\ IF Uuid_parse_str(id) = None
       THEN /\ Fails(cmd, None, InvalidUuidString)
            /\ UNCHANGED inflight
       ELSE LET account_id == Unwrap(Uuid_parse_str(id)) IN
            \E outcome \in DbOutcomes :
                IF outcome # "executed"
                THEN /\ DbFails(cmd, Some(account_id), outcome)
                     /\ UNCHANGED inflight
                ELSE IF find_by_id(accounts, account_id) = None
                THEN /\ ErrFails(cmd, Some(account_id), not_found("Account"))
                     /\ UNCHANGED inflight
                ELSE /\ Suspend(Task(next, find_by_id(accounts, account_id),
                                       find_by_id(accounts, account_id)))
                     /\ UNCHANGED lastResult
    /\ UNCHANGED <<call, held, form>>
    /\ UNCHANGED <<accounts, issued, now, incSum, overwritten, deleted>>

\* the edit with the fallbacks of From<AccountDto> in place of the
\* rejections: a token that does not parse becomes Asset / CurrentAsset
update_account_fields_lenient(account, update_data) ==
    LET parent == ParseParent(update_data.parent_id) IN
    IF ~parent.ok
    THEN [ok |-> FALSE, account |-> account, err |-> InvalidParentUuidString]
    ELSE [ok |-> TRUE, err |-> <<>>,
          account |-> [account EXCEPT
                        !.code = update_data.code,
                        !.name = update_data.name,
                        !.description = update_data.description,
                        !.account_type = unwrap_or(
                            AccountType_from_str(update_data.account_type),
                            "Asset"),
                        !.category = unwrap_or(
                            AccountCategory_from_str(update_data.category),
                            "CurrentAsset"),
                        !.subcategory = update_data.subcategory,
                        !.parent_id = parent.val,
                        !.updated_at = now]]

\* update_account from the parse of update_data to account.updated_at =
\* Utc::now(): the failure it returns, or the account as edited
update_account_fields(account, update_data) ==
    LET account_type == AccountType_from_str(update_data.account_type)
        category == AccountCategory_from_str(update_data.category)
        parent == ParseParent(update_data.parent_id)
    IN
    IF account_type = None
    THEN [ok |-> FALSE, account |-> account,
          err |-> ErrString(validation_error("Invalid account type"), FALSE)]
    ELSE IF category = None
    THEN [ok |-> FALSE, account |-> account,
          err |-> ErrString(validation_error("Invalid account category"),
                            FALSE)]
    ELSE IF ~parent.ok
    THEN [ok |-> FALSE, account |-> account, err |-> InvalidParentUuidString]
    ELSE [ok |-> TRUE, err |-> <<>>,
          account |-> [account EXCEPT
                        !.code = update_data.code,
                        !.name = update_data.name,
                        !.description = update_data.description,
                        !.account_type = Unwrap(account_type),
                        !.category = Unwrap(category),
                        !.subcategory = update_data.subcategory,
                        !.parent_id = parent.val,
                        !.updated_at = now]]

\* update_account up to its second await: parse the id, find_by_id, then
\* the edit of the account found
update_account_find(id, update_data) ==
    /\ Issue
    /\ IF Uuid_parse_str(id) = None
       THEN /\ Fails("update_account", None, InvalidUuidString)
            /\ UNCHANGED inflight
       ELSE LET account_id == Unwrap(Uuid_parse_str(id)) IN
            \E outcome \in DbOutcomes :
                IF outcome # "executed"
                THEN /\ DbFails("update_account", Some(account_id), outcome)
                     /\ UNCHANGED inflight
                ELSE IF find_by_id(accounts, account_id) = None
                THEN /\ ErrFails("update_account", Some(account_id),
                                 not_found("Account"))
                     /\ UNCHANGED inflight
                ELSE LET edited == update_account_fields(
                            Unwrap(find_by_id(accounts, account_id)),
                            update_data)
                     IN  IF edited.ok
                         THEN /\ Suspend(Task("update_save",
                                              Some(edited.account),
                                              find_by_id(accounts,
                                                         account_id)))
                              /\ UNCHANGED lastResult
                         ELSE /\ Fails("update_account", Some(account_id),
                                       edited.err)
                              /\ UNCHANGED inflight
    /\ UNCHANGED <<call, held, form>>
    /\ UNCHANGED <<accounts, issued, now, incSum, overwritten, deleted>>

\* the save step with rows_affected inspected: an UPDATE that met no row is
\* reported as NotFound
SaveRowsChecked(task, cmd) ==
    LET account == Unwrap(task.account) IN
    /\ \E outcome \in DbOutcomes :
        IF outcome # "executed"
        THEN /\ DbFails(cmd, Some(account.id), outcome)
             /\ UNCHANGED <<accounts, overwritten>>
        ELSE IF account.id \notin DOMAIN accounts
        THEN /\ Returns(cmd, Some(account.id), FALSE, None,
                        ErrString(not_found("Account"), FALSE),
                        FALSE, FALSE, outcome)
             /\ UNCHANGED <<accounts, overwritten>>
        ELSE /\ accounts' = RepoUpdate(accounts, account)
             /\ overwritten' = overwritten \cup {account.id}
             /\ Returns(cmd, Some(account.id), TRUE,
                        Some(ViewFromAccount(account)), <<>>,
                        TRUE, accounts' # accounts, outcome)
    /\ inflight' = Resume(task)
    /\ UNCHANGED <<call, held, form>>
    /\ UNCHANGED <<issued, now, incSum, deleted, nCommands>>

\* the save step that writes only a row still as the command read it, and
\* reports a conflict otherwise
SaveIfUnchanged(task, cmd) ==
    LET account == Unwrap(task.account) IN
    /\ \E outcome \in DbOutcomes :
        IF outcome # "executed"
        THEN /\ DbFails(cmd, Some(account.id), outcome)
             /\ UNCHANGED <<accounts, overwritten>>
        ELSE IF find_by_id(accounts, account.id) # task.read
        THEN /\ Outcome(cmd, Some(account.id), FALSE, None,
                        ErrString([kind |-> "Conflict",
                                   msg |-> <<"Account", " was modified">>],
                                  FALSE),
                        account.id \in DOMAIN accounts, FALSE, outcome,
                        task.read, find_by_id(accounts, account.id))
             /\ UNCHANGED <<accounts, overwritten>>
        ELSE /\ accounts' = RepoUpdate(accounts, account)
             /\ overwritten' = overwritten \cup {account.id}
             /\ Outcome(cmd, Some(account.id), TRUE,
                        Some(ViewFromAccount(account)), <<>>,
                        TRUE, accounts' # accounts, outcome,
                        task.read, find_by_id(accounts, account.id))
    /\ inflight' = Resume(task)
    /\ UNCHANGED <<call, held, form>>
    /\ UNCHANGED <<issued, now, incSum, deleted, nCommands>>

\* repo.update(&account).await and the return, shared by update_account and
\* toggle_account_status
Save(task, cmd) ==
    LET account == Unwrap(task.account) IN
    /\ \E outcome \in DbOutcomes :
        IF outcome = "executed"
        THEN /\ accounts' = RepoUpdate(accounts, account)
             /\ overwritten' =
                    IF account.id \in DOMAIN accounts
                    THEN overwritten \cup {account.id} ELSE overwritten
             /\ Outcome(cmd, Some(account.id), TRUE,
                        Some(ViewFromAccount(account)), <<>>,
                        account.id \in DOMAIN accounts,
                        accounts' # accounts, outcome,
                        task.read, find_by_id(accounts, account.id))
        ELSE /\ DbFails(cmd, Some(account.id), outcome)
             /\ UNCHANGED <<accounts, overwritten>>
    /\ inflight' = Resume(task)
    /\ UNCHANGED <<call, held, form>>
    /\ UNCHANGED <<issued, now, incSum, deleted, nCommands>>

update_account_save(task) ==
    /\ BagIn(task, inflight)
    /\ task.pc = "update_save"
    /\ Save(task, "update_account")

delete_account(id) ==
    /\ Issue
    /\ IF Uuid_parse_str(id) = None
       THEN /\ Fails("delete_account", None, InvalidUuidString)
            /\ UNCHANGED <<accounts, deleted>>
       ELSE LET account_id == Unwrap(Uuid_parse_str(id)) IN
            \E outcome \in DbOutcomes :
                IF outcome = "executed"
                THEN /\ accounts' = RepoDelete(accounts, account_id)
                     /\ deleted' = deleted \cup {account_id}
                     /\ Returns("delete_account", Some(account_id), TRUE,
                                None, <<>>, account_id \in DOMAIN accounts,
                                accounts' # accounts, outcome)
                ELSE /\ DbFails("delete_account", Some(account_id), outcome)
                     /\ UNCHANGED <<accounts, deleted>>
    /\ UNCHANGED <<call, held, form>>
    /\ UNCHANGED <<issued, now, inflight, incSum, overwritten>>

toggle_account_status_find(id) ==
    Find("toggle_account_status", id, "toggle_flip")

\* account.is_active = !account.is_active; account.updated_at = Utc::now()
toggle_account_status_flip(task) ==
    /\ BagIn(task, inflight)
    /\ task.pc = "toggle_flip"
    /\ inflight' = Resume(task) (+) SetToBag({
            Task("toggle_save",
                 Some([Unwrap(task.account) EXCEPT
                    !.is_active = ~@, !.updated_at = now]),
                 task.read)})
    /\ UNCHANGED <<call, held, form>>
    /\ UNCHANGED <<accounts, issued, now, lastResult, incSum, overwritten,
                   deleted, nCommands>>

toggle_account_status_save(task) ==
    /\ BagIn(task, inflight)
    /\ task.pc = "toggle_save"
    /\ Save(task, "toggle_account_status")

get_root_accounts ==
    /\ Issue
    /\ \E outcome \in DbOutcomes :
        IF outcome = "executed"
        THEN \E found \in find_roots(accounts) :
                Returns("get_root_accounts", None, TRUE, Views(found), <<>>,
                        FALSE, FALSE, outcome)
        ELSE DbFails("get_root_accounts", None, outcome)
    /\ UNCHANGED <<call, held, form>>
    /\ UNCHANGED <<accounts, issued, now, inflight, incSum, overwritten,
                   deleted>>

get_child_accounts(parent_id) ==
    /\ Issue
    /\ IF Uuid_parse_str(parent_id) = None
       THEN Fails("get_child_accounts", None, InvalidUuidString)
       ELSE LET account_id == Unwrap(Uuid_parse_str(parent_id)) IN
            \E outcome \in DbOutcomes :
                IF outcome = "executed"
                THEN \E found \in find_children(accounts, account_id) :
                        Returns("get_child_accounts", Some(account_id), TRUE,
                                Views(found), <<>>,
                                account_id \in DOMAIN accounts, FALSE, outcome)
                ELSE DbFails("get_child_accounts", Some(account_id), outcome)
    /\ UNCHANGED <<call, held, form>>
    /\ UNCHANGED <<accounts, issued, now, inflight, incSum, overwritten,
                   deleted>>

\* AccountRepository::update_balance called on the store (no command wraps
\* it)
update_balance(id, amount) ==
    /\ Issue
    /\ \E outcome \in DbOutcomes :
        IF outcome = "executed"
        THEN /\ accounts' = RepoUpdateBalance(accounts, id, amount, now)
             /\ incSum' = IF id \in DOMAIN accounts
                          THEN [incSum EXCEPT ![id] = @ + amount]
                          ELSE incSum
             /\ Returns("update_balance", Some(id), TRUE, None, <<>>,
                        id \in DOMAIN accounts, accounts' # accounts, outcome)
        ELSE /\ DbFails("update_balance", Some(id), outcome)
             /\ UNCHANGED <<accounts, incSum>>
    /\ UNCHANGED <<call, held, form>>
    /\ UNCHANGED <<issued, now, inflight, overwritten, deleted>>

\* time passes
Tick ==
    /\ now < MaxTime
    /\ now' = now + 1
    /\ UNCHANGED <<call, held, form>>
    /\ UNCHANGED <<accounts, issued, inflight, lastResult, incSum,
                   overwritten, deleted, nCommands>>

----------------------------------------------------------------------------
(* The Account entity used on its own: an account built by Account::new    *)
(* and held in memory, on which update_balance is called.                  *)

\* NewAccount values: what the commands build from TimedDtos
NewAccounts ==
    {[d EXCEPT
        !.account_type = Unwrap(AccountType_from_str(d.account_type)),
        !.category = Unwrap(AccountCategory_from_str(d.category)),
        !.parent_id = None] : d \in TimedDtos}

\* the amounts update_balance is called with: +100.50, -30.25, +500.00
AdjustAmounts == Amounts \cup {50000}

entity_new(new_account) ==
    /\ held = None
    /\ held' = Some(AccountNew(new_account, new_v4, now))
    /\ issued' = issued \cup {new_v4}
    /\ UNCHANGED <<accounts, now, inflight, lastResult, incSum, overwritten,
                   deleted, nCommands, call, form>>

entity_update_balance(amount) ==
    /\ held # None
    /\ Issue
    /\ held' = Some(AccountUpdateBalance(Unwrap(held), amount, now))
    /\ incSum' = [incSum EXCEPT ![Unwrap(held).id] = @ + amount]
    /\ UNCHANGED <<accounts, issued, now, inflight, lastResult, overwritten,
                   deleted, call, form>>

----------------------------------------------------------------------------
(* The classification functions called on their own: the text or variant   *)
(* handed over, and what comes back.                                       *)

\* the lower case of the ASCII capitals
Lower ==
    [C \in {"A","B","C","D","E","F","G","H","I","J","K","L","M",
             "N","O","P","Q","R","S","T","U","V","W","X","Y","Z"} |->
        CASE C = "A" -> "a" [] C = "B" -> "b" [] C = "C" -> "c"
          [] C = "D" -> "d" [] C = "E" -> "e" [] C = "F" -> "f"
          [] C = "G" -> "g" [] C = "H" -> "h" [] C = "I" -> "i"
          [] C = "J" -> "j" [] C = "K" -> "k" [] C = "L" -> "l"
          [] C = "M" -> "m" [] C = "N" -> "n" [] C = "O" -> "o"
          [] C = "P" -> "p" [] C = "Q" -> "q" [] C = "R" -> "r"
          [] C = "S" -> "s" [] C = "T" -> "t" [] C = "U" -> "u"
          [] C = "V" -> "v" [] C = "W" -> "w" [] C = "X" -> "x"
          [] C = "Y" -> "y" [] C = "Z" -> "z"]

\* the sets of at most k positions of 1..n
RECURSIVE Masks(_, _)
Masks(n, k) ==
    IF k = 0 THEN {{}}
    ELSE LET fewer == Masks(n, k - 1)
         IN  fewer \cup {m \cup {i} : m \in fewer, i \in 1..n}

\* token with the letters at the positions m written in lower case; old
\* writes the long s for s and the dotless i for i
Lowered(token, m, old) ==
    [i \in 1..Len(token) |->
        IF i \notin m \/ token[i] \notin DOMAIN Lower THEN token[i]
        ELSE IF old /\ token[i] = "S" THEN LongS
        ELSE IF old /\ token[i] = "I" THEN DotlessI
        ELSE Lower[token[i]]]

\* s with its first double s written as one sharp s
RECURSIVE WithSharpS(_)
WithSharpS(s) ==
    IF Len(s) < 2 THEN s
    ELSE IF s[1] \in {"S", "s"} /\ s[2] \in {"S", "s"}
    THEN <<SharpS>> \o Tail(Tail(s))
    ELSE <<s[1]>> \o WithSharpS(Tail(s))

\* spellings of token that differ from it in case only: up to MaxLowered
\* letters in lower case, all of them, all but the first of each word, and
\* the spellings with the long s, the dotless i and the sharp s
Casings(token) ==
    LET all == 1..Len(token)
        inner == {i \in all : i > 1 /\ token[i - 1] # "_"}
        plain == {Lowered(token, m, FALSE) :
                    m \in Masks(Len(token), MaxLowered) \cup {all, inner}}
        old == {Lowered(token, m, TRUE) : m \in {all, inner}}
    IN  plain \cup old \cup {WithSharpS(s) : s \in
                                {token, Lowered(token, all, FALSE)}}

\* spellings near token that are not it: a character missing, a character
\* too many, a blank in front, a blank or nothing for the underscore
Garbled(token) ==
    ( {SubSeq(token, 1, i - 1) \o SubSeq(token, i + 1, Len(token)) :
            i \in 1..Len(token)}
      \cup {token \o <<"S">>, <<" ">> \o token, token \o <<" ">>}
      \cup {[i \in 1..Len(token) |->
                IF token[i] = "_" THEN " " ELSE token[i]]} )
    \ {token}

Tokens ==
    {AccountType_to_string(t) : t \in AccountType}
    \cup {AccountCategory_to_string(c) : c \in AccountCategory}

\* the texts handed to the parsers
Texts ==
    {<<>>, L_bogus}
    \cup UNION {Casings(token) : token \in Tokens}
    \cup UNION {Garbled(token) \cup Garbled(Lowered(token, 1..Len(token),
                                                   FALSE)) :
                    token \in Tokens}

NoVariant == "none"

NoCall == [fn |-> "none", text |-> <<>>, variant |-> NoVariant, ret |-> None]

\* a call not yet made: the function, and the text or the variant it is
\* handed
Calls ==
    {[fn |-> fn, text |-> s, variant |-> NoVariant, ret |-> None] :
        fn \in {"AccountType::from_str", "AccountCategory::from_str"},
        s \in Texts}
    \cup {[fn |-> fn, text |-> <<>>, variant |-> t, ret |-> None] :
        fn \in {"AccountType::to_string", "is_debit_normal",
                 "is_credit_normal", "for_account_type"},
        t \in AccountType}
    \cup {[fn |-> "AccountCategory::to_string", text |-> <<>>,
            variant |-> c, ret |-> None] : c \in AccountCategory}

\* the call is made and its value comes back
Called(fn) ==
    /\ call.fn = fn
    /\ call.ret = None
    /\ UNCHANGED <<accounts, issued, now, inflight, lastResult, incSum,
                   overwritten, deleted, nCommands, held, form>>

call_AccountType_from_str ==
    /\ Called("AccountType::from_str")
    /\ call' = [call EXCEPT !.ret = Some(AccountType_from_str(call.text))]

call_AccountCategory_from_str ==
    /\ Called("AccountCategory::from_str")
    /\ call' = [call EXCEPT !.ret = Some(AccountCategory_from_str(call.text))]

call_AccountType_to_string ==
    /\ Called("AccountType::to_string")
    /\ call' = [call EXCEPT !.ret = Some(AccountType_to_string(call.variant))]

call_AccountCategory_to_string ==
    /\ Called("AccountCategory::to_string")
    /\ call' = [call EXCEPT !.ret = Some(AccountCategory_to_string(call.variant))]

call_is_debit_normal ==
    /\ Called("is_debit_normal")
    /\ call' = [call EXCEPT !.ret = Some(is_debit_normal(call.variant))]

call_is_credit_normal ==
    /\ Called("is_credit_normal")
    /\ call' = [call EXCEPT !.ret = Some(is_credit_normal(call.variant))]

call_for_account_type ==
    /\ Called("for_account_type")
    /\ call' = [call EXCEPT !.ret = Some(for_account_type(call.variant))]

----------------------------------------------------------------------------
(* The frontend: components/AccountsComponent.rs and services/accounts.rs. *)
(* form holds the account_type and category of the new_account signal, the *)
(* show_form and is_loading signals, whether the fetch of use_effect is    *)
(* still under way, and the model a submit has sent and not yet heard back *)
(* about.                                                                  *)

\* let account_types = vec![...]
account_types == <<T_ASSET, T_LIABILITY, T_EQUITY, T_REVENUE, T_EXPENSE>>

\* let category_map: the HashMap as built by its five inserts
category_map ==
    [t \in Range(account_types) |->
        CASE t = T_ASSET ->
                <<T_CURRENT_ASSET, T_FIXED_ASSET, T_OTHER_ASSET>>
          [] t = T_LIABILITY ->
                <<T_CURRENT_LIABILITY, T_LONG_TERM_LIABILITY,
                  T_OTHER_LIABILITY>>
          [] t = T_EQUITY -> <<T_OWNER_EQUITY, T_RETAINED_EARNINGS>>
          [] t = T_REVENUE ->
                <<T_OPERATING_REVENUE, T_NON_OPERATING_REVENUE>>
          [] t = T_EXPENSE ->
                <<T_OPERATING_EXPENSE, T_NON_OPERATING_EXPENSE>>]

\* services::accounts::get_categories_for_type
get_categories_for_type(account_type) ==
    CASE account_type = T_ASSET ->
            <<T_CURRENT_ASSET, T_FIXED_ASSET, T_OTHER_ASSET>>
      [] account_type = T_LIABILITY ->
            <<T_CURRENT_LIABILITY, T_LONG_TERM_LIABILITY, T_OTHER_LIABILITY>>
      [] account_type = T_EQUITY -> <<T_OWNER_EQUITY, T_RETAINED_EARNINGS>>
      [] account_type = T_REVENUE ->
            <<T_OPERATING_REVENUE, T_NON_OPERATING_REVENUE>>
      [] account_type = T_EXPENSE ->
            <<T_OPERATING_EXPENSE, T_NON_OPERATING_EXPENSE>>
      [] OTHER -> <<>>

\* the component as mounted: the default model, the form hidden, the fetch
\* of use_effect under way
FormMounted ==
    [account_type |-> T_ASSET, category |-> T_CURRENT_ASSET,
     show_form |-> FALSE, is_loading |-> TRUE, fetching |-> TRUE,
     submitted |-> None]

\* let categories: the options the category select is rendered with
categories ==
    IF form.account_type \in DOMAIN category_map
    THEN category_map[form.account_type] ELSE <<>>

BackendUntouched ==
    UNCHANGED <<accounts, issued, now, inflight, lastResult, incSum,
                overwritten, deleted, nCommands, call, held>>

\* the fetch spawned by use_effect returns
fetch_accounts_returns ==
    /\ form.fetching
    /\ get_accounts_run
    /\ form' = [form EXCEPT !.is_loading = FALSE, !.fetching = FALSE]

toggle_form ==
    /\ form' = [form EXCEPT !.show_form = ~@]
    /\ BackendUntouched

\* onchange of the account type select that leaves the category alone
account_type_onchange_keeping(value) ==
    /\ form.show_form
    /\ form' = [form EXCEPT !.account_type = value]
    /\ BackendUntouched

\* onchange of the account type select; value is the option chosen
account_type_onchange(value) ==
    /\ form.show_form
    /\ LET default_category ==
            IF value \in DOMAIN category_map /\ category_map[value] # <<>>
            THEN category_map[value][1] ELSE <<>>
       IN  form' = [form EXCEPT !.account_type = value,
                                !.category = default_category]
    /\ BackendUntouched

\* onchange of the category select; value is the option chosen
category_onchange(value) ==
    /\ form.show_form
    /\ form' = [form EXCEPT !.category = value]
    /\ BackendUntouched

\* handle_submit up to the spawn; the button is disabled while is_loading
handle_submit ==
    /\ form.show_form
    /\ ~form.is_loading
    /\ form' = [form EXCEPT
                    !.is_loading = TRUE,
                    !.submitted = Some(Cash(form.account_type,
                                            form.category, None))]
    /\ BackendUntouched

\* the task handle_submit spawned: create_account is invoked with the
\* model cloned at the submit, and its answer handled
create_account_returns ==
    /\ form.submitted # None
    /\ create_account_run(Unwrap(form.submitted), new_v4)
    /\ form' = IF lastResult'.ok
               THEN [form EXCEPT
                        !.account_type = T_ASSET,
                        !.category = T_CURRENT_ASSET,
                        !.show_form = FALSE,
                        !.is_loading = FALSE,
                        !.submitted = None]
               ELSE [form EXCEPT !.is_loading = FALSE, !.submitted = None]

----------------------------------------------------------------------------

Tasks == BagToSet(inflight)

Init ==
    /\ accounts = <<>>
    /\ issued = {}
    /\ now = 0
    /\ inflight = EmptyBag
    /\ lastResult = [cmd |-> "none", id |-> None, ok |-> TRUE, val |-> None,
                     err |-> <<>>, existed |-> FALSE, changed |-> FALSE,
                     db |-> "none", read |-> None, met |-> None]
    /\ incSum = [u \in Uuids |-> 0]
    /\ overwritten = {}
    /\ deleted = {}
    /\ nCommands = 0
    /\ call = NoCall
    /\ held = None
    /\ form = FormMounted

\* the commands that write to the store
Mutations ==
    \/ \E new_account \in NewAccountDtos : create_account(new_account)
    \/ \E id \in IdTexts, update_data \in NewAccountDtos :
            update_account_find(id, update_data)
    \/ \E task \in Tasks : update_account_save(task)
    \/ \E id \in IdTexts : delete_account(id)
    \/ \E id \in IdTexts : toggle_account_status_find(id)
    \/ \E task \in Tasks : toggle_account_status_flip(task)
    \/ \E task \in Tasks : toggle_account_status_save(task)
    \/ \E id \in issued \cup {NilUuid}, amount \in Amounts :
            update_balance(id, amount)

\* the commands that only read it
Queries ==
    \/ get_accounts
    \/ \E id \in IdTexts : get_account(id)
    \/ get_root_accounts
    \/ \E id \in IdTexts : get_child_accounts(id)

\* every command, within one reading of the clock
Next == Mutations \/ Queries

Spec == Init /\ [][Next]_vars

\* what the timed runs address: ids of known accounts
TimedIdTexts == {Uuid_to_string(u) : u \in issued}

\* the writing commands as time passes
NextTimed ==
    \/ \E new_account \in TimedDtos : create_account(new_account)
    \/ \E id \in TimedIdTexts, update_data \in TimedDtos :
            update_account_find(id, update_data)
    \/ \E task \in Tasks : update_account_save(task)
    \/ \E id \in TimedIdTexts : delete_account(id)
    \/ \E id \in TimedIdTexts : toggle_account_status_find(id)
    \/ \E task \in Tasks : toggle_account_status_flip(task)
    \/ \E task \in Tasks : toggle_account_status_save(task)
    \/ \E id \in issued, amount \in Amounts : update_balance(id, amount)
    \/ Tick

SpecTimed == Init /\ [][NextTimed]_vars

\* creating, reading and deleting accounts when the random generator behind
\* Uuid::new_v4() may return any id, one that has a row included
NextCollision ==
    \/ \E new_account \in TimedDtos, id \in 1..MaxCommands :
            create_account_id(new_account, id)
    \/ \E id \in TimedIdTexts : get_account(id)
    \/ \E id \in TimedIdTexts : delete_account(id)

SpecCollision == Init /\ [][NextCollision]_vars

\* an account held in memory and adjusted as time passes
NextEntity ==
    \/ \E new_account \in NewAccounts : entity_new(new_account)
    \/ \E amount \in AdjustAmounts : entity_update_balance(amount)
    \/ Tick

SpecEntity == Init /\ [][NextEntity]_vars

\* the user at the account form
NextForm ==
    \/ fetch_accounts_returns
    \/ toggle_form
    \/ \E value \in Range(account_types) : account_type_onchange(value)
    \/ \E value \in Range(categories) : category_onchange(value)
    \/ handle_submit
    \/ create_account_returns

SpecForm == Init /\ [][NextForm]_vars

\* one call of a classification function, on a store no command has touched
InitClassification ==
    /\ accounts = <<>>
    /\ issued = {}
    /\ now = 0
    /\ inflight = EmptyBag
    /\ lastResult = [cmd |-> "none", id |-> None, ok |-> TRUE, val |-> None,
                     err |-> <<>>, existed |-> FALSE, changed |-> FALSE,
                     db |-> "none", read |-> None, met |-> None]
    /\ incSum = [u \in Uuids |-> 0]
    /\ overwritten = {}
    /\ deleted = {}
    /\ nCommands = 0
    /\ call \in Calls
    /\ held = None
    /\ form = FormMounted

NextClassification ==
    \/ call_AccountType_from_str
    \/ call_AccountCategory_from_str
    \/ call_AccountType_to_string
    \/ call_AccountCategory_to_string
    \/ call_is_debit_normal
    \/ call_is_credit_normal
    \/ call_for_account_type

SpecClassification == InitClassification /\ [][NextClassification]_vars

----------------------------------------------------------------------------
(* Properties *)

ErrorCodes ==
    {"VALIDATION_ERROR", "NOT_FOUND", "CONFLICT_ERROR", "DATABASE_ERROR",
     "UNKNOWN_ERROR"}

\* seq lists exactly the members of set, once each, by code ascending
ExactlyInOrder(seq, set) ==
    /\ Len(seq) = Cardinality(set)
    /\ Range(seq) = set
    /\ \A i \in 1..(Len(seq) - 1) : ~LexLess(seq[i + 1].code, seq[i].code)

StoredAccounts == {AccountFromDto(r) : r \in Rows(accounts)}

StoredViews == {ViewFromAccount(a) : a \in StoredAccounts}

\* C1: as long as only increments have written an account's balance, the
\* stored balance is the creation balance 0 plus the sum of every increment
\* applied, whatever the interleaving with other commands in flight.
C1_NoLostIncrement ==
    \A id \in DOMAIN accounts :
        id \notin overwritten => accounts[id].balance = incSum[id]

\* C1 witness: two increments of the same amount have been applied to one
\* account and both are in its balance.
C1_Witness ==
    \E id \in DOMAIN accounts :
        /\ id \notin overwritten
        /\ incSum[id] = 2 * 10050
        /\ accounts[id].balance = 2 * 10050

\* C2: the stored balance of every account equals the sum of the
\* increments applied to it; no general update overwrites it.
C2_BalanceOnlyAdded ==
    \A id \in DOMAIN accounts : accounts[id].balance = incSum[id]

\* C3: every persisted account's category is one of
\* for_account_type(account_type) of the same account.
C3_CategoryMatchesType ==
    \A a \in StoredAccounts :
        a.category \in Range(for_account_type(a.account_type))

\* C4: a command that returns success has applied what it reports (update
\* and toggle met the row they wrote, create inserted it, delete left no
\* row), and a command that returns a failure did not change the store.
C4_NoPartialSuccess ==
    /\ lastResult.ok /\ lastResult.cmd \in
            {"update_account", "toggle_account_status"}
        => lastResult.existed
    /\ lastResult.ok /\ lastResult.cmd = "create_account"
        => lastResult.changed
    /\ lastResult.ok /\ lastResult.cmd = "delete_account"
        => Unwrap(lastResult.id) \notin DOMAIN accounts
    /\ ~lastResult.ok => ~lastResult.changed

\* C5: every failure a command returns carries one of the five error codes.
C5_FailureCarriesCode ==
    ~lastResult.ok =>
        \E i \in 1..Len(lastResult.err) : lastResult.err[i] \in ErrorCodes

\* C6: delete of an id that has no row returns success once its statement
\* has run and changes no row; deleting twice leaves the store as deleting
\* once.
C6_DeleteAbsentIsNoop ==
    /\ ( /\ lastResult.cmd = "delete_account"
         /\ lastResult.db = "executed"
         /\ ~lastResult.existed )
        => lastResult.ok /\ ~lastResult.changed
    /\ \A id \in Uuids \ DOMAIN accounts : RepoDelete(accounts, id) = accounts
    /\ \A id \in Uuids :
        RepoDelete(RepoDelete(accounts, id), id) = RepoDelete(accounts, id)

\* C6 witness: a second delete of an account that was created and deleted
\* has returned success.
C6_Witness ==
    /\ lastResult.cmd = "delete_account"
    /\ lastResult.ok
    /\ ~lastResult.existed
    /\ Unwrap(lastResult.id) \in issued \cap deleted

\* C7: an id whose delete has completed has no row, and get_account of it
\* returns Ok(None), whatever ran before or runs after the delete.
C7_DeletedStaysAbsent ==
    /\ \A id \in deleted : find_by_id(accounts, id) = None
    /\ ( /\ lastResult.cmd = "get_account"
         /\ lastResult.db = "executed"
         /\ Unwrap(lastResult.id) \in deleted )
        => lastResult.ok /\ lastResult.val = None

\* C7 witness: get_account of an account that was created and then deleted
\* has returned.
C7_Witness ==
    /\ lastResult.cmd = "get_account"
    /\ lastResult.db = "executed"
    /\ Unwrap(lastResult.id) \in issued \cap deleted
    /\ lastResult.val = None

\* C8: find_roots returns exactly the accounts with no parent_id and
\* find_children(X) exactly those whose parent_id is X, each by code
\* ascending; the commands over them return the same.
C8_HierarchyQueries ==
    /\ \A s \in find_roots(accounts) :
        ExactlyInOrder(s, {a \in StoredAccounts : a.parent_id = None})
    /\ \A x \in Uuids : \A s \in find_children(accounts, x) :
        ExactlyInOrder(s, {a \in StoredAccounts : a.parent_id = Some(x)})
    /\ lastResult.cmd = "get_root_accounts" /\ lastResult.ok
        => ExactlyInOrder(lastResult.val,
                {v \in StoredViews : v.parent_id = None})
    /\ lastResult.cmd = "get_child_accounts" /\ lastResult.ok
        => ExactlyInOrder(lastResult.val,
                {v \in StoredViews :
                    v.parent_id = Some(Uuid_to_string(Unwrap(lastResult.id)))})

\* C8 witness: a three-level hierarchy is stored, so one account has a
\* child and a grandchild.
C8_Witness ==
    \E a, b, c \in DOMAIN accounts :
        /\ a # b /\ b # c /\ a # c
        /\ accounts[a].parent_id = None
        /\ accounts[b].parent_id = Some(a)
        /\ accounts[c].parent_id = Some(b)
        /\ \A s \in find_children(accounts, a) : Len(s) = 1

\* C9: find_all returns every persisted account exactly once by code
\* ascending, the empty sequence for the empty store, and get_accounts
\* returns the same.
C9_FindAllSorted ==
    LET results == find_all(accounts) IN
    /\ results # {}
    /\ \A s \in results : ExactlyInOrder(s, StoredAccounts)
    /\ accounts = <<>> => results = {<<>>}
    /\ lastResult.cmd = "get_accounts" /\ lastResult.ok
        => ExactlyInOrder(lastResult.val, StoredViews)

\* C9 witness: get_accounts has returned two accounts that were created in
\* descending order of code.
C9_Witness ==
    /\ lastResult.cmd = "get_accounts"
    /\ lastResult.ok
    /\ Len(lastResult.val) = 2
    /\ \E a, b \in DOMAIN accounts :
        a < b /\ LexLess(accounts[b].code, accounts[a].code)

\* C10: every row that comes into existence has balance 0, is active and
\* has created_at equal to updated_at, and create_account returns it so.
C10_NewAccountDefaults ==
    [][\A id \in DOMAIN accounts' \ DOMAIN accounts :
        /\ accounts'[id].balance = 0
        /\ accounts'[id].is_active
        /\ accounts'[id].created_at = accounts'[id].updated_at
        /\ lastResult'.cmd = "create_account"
        /\ lastResult'.val =
                Some(ViewFromAccount(AccountFromDto(accounts'[id])))]_vars

\* C10 witness: an account created after the clock has advanced is stored
\* and has been returned.
C10_Witness ==
    /\ lastResult.cmd = "create_account"
    /\ lastResult.ok
    /\ now > 0
    /\ \E id \in DOMAIN accounts :
        /\ lastResult.id = Some(id)
        /\ accounts[id].created_at = now
        /\ accounts[id].parent_id = None

\* the accounts that commands in flight are about to write with repo.update
Pending == {Unwrap(task.account) : task \in
                {k \in Tasks : k.pc \in {"update_save", "toggle_save"}}}

\* C11: the store's update of an account whose id has no row returns
\* success, changes no row and inserts none: the table after it is the
\* table before it, and the id still has no row.
C11_UpdateAbsentIsNoop ==
    /\ ( /\ lastResult.cmd \in {"update_account", "toggle_account_status"}
         /\ lastResult.db = "executed"
         /\ ~lastResult.existed )
        => /\ lastResult.ok
           /\ ~lastResult.changed
           /\ Unwrap(lastResult.id) \notin DOMAIN accounts
    /\ \A account \in Pending :
        /\ DOMAIN RepoUpdate(accounts, account) = DOMAIN accounts
        /\ account.id \notin DOMAIN accounts
            => RepoUpdate(accounts, account) = accounts

\* C11 witness: update_account of an account that was deleted while the
\* update was in flight has run its UPDATE and returned success.
C11_Witness ==
    /\ lastResult.cmd = "update_account"
    /\ lastResult.db = "executed"
    /\ lastResult.ok
    /\ ~lastResult.existed
    /\ Unwrap(lastResult.id) \in issued \cap deleted

\* C12: create attempted with an id that already has a row fails with a
\* Conflict error, reported as CONFLICT_ERROR, and changes no row.
C12_DuplicateIdIsConflict ==
    ( /\ lastResult.cmd = "create_account"
      /\ lastResult.existed )
        => /\ ~lastResult.ok
           /\ ~lastResult.changed
           /\ \E i \in 1..Len(lastResult.err) :
                lastResult.err[i] \in {"CONFLICT_ERROR", "A conflict occurred"}

\* identifier strings that Uuid::parse_str refuses; as a parent reference
\* the empty string is not parsed at all
MalformedIds == {s \in IdTexts : Uuid_parse_str(s) = None}

MalformedParents == {s \in MalformedIds : ~is_empty(s)}

\* the failure text is that of a Validation error
ReportsValidation(err) ==
    \E i \in 1..Len(err) :
        err[i] \in {"VALIDATION_ERROR", "A validation error occurred"}

\* a step of a command that was handed a malformed identifier, as its id or
\* as the parent reference of its data
MalformedIdStep ==
    \/ \E id \in MalformedIds :
        \/ get_account(id)
        \/ \E update_data \in NewAccountDtos :
                update_account_find(id, update_data)
        \/ delete_account(id)
        \/ toggle_account_status_find(id)
        \/ get_child_accounts(id)
    \/ \E data \in {d \in NewAccountDtos :
                        d.parent_id \in {Some(p) : p \in MalformedParents}} :
        \/ create_account(data)
        \/ \E id \in IdTexts : update_account_find(id, data)

\* C13: a command handed a malformed identifier is rejected with a
\* Validation failure and leaves the store as it was.
C13_MalformedIdIsValidation ==
    [][MalformedIdStep =>
        /\ ~lastResult'.ok
        /\ accounts' = accounts
        /\ ReportsValidation(lastResult'.err)]_vars

\* NewAccountDto values whose account_type or category no parser accepts
\* (those sent under a parent all parse)
Unparsed ==
    {d \in CashDtos :
        \/ AccountType_from_str(d.account_type) = None
        \/ AccountCategory_from_str(d.category) = None}

\* the failure text names the field of data that did not parse
NamesField(err, data) ==
    \E i \in 1..Len(err) :
        err[i] = IF AccountType_from_str(data.account_type) = None
                 THEN "Invalid account type"
                 ELSE "Invalid account category"

\* the step is one on which create_account returns
CreateReturns ==
    nCommands' = nCommands + 1 /\ lastResult'.cmd = "create_account"

\* the step is update_account up to its second await: it returns a failure
\* or leaves the command in flight
UpdateFinds ==
    /\ nCommands' = nCommands + 1
    /\ lastResult'.cmd = "update_account" \/ inflight' # inflight

\* the step is one on which update_account returns from repo.update
UpdateSaves ==
    nCommands' = nCommands /\ lastResult'.cmd = "update_account"

\* the step rejects the command for the field of data that did not parse
\* and leaves the store as it was
RejectsField(data) ==
    /\ ~lastResult'.ok
    /\ accounts' = accounts
    /\ ReportsValidation(lastResult'.err)
    /\ NamesField(lastResult'.err, data)

\* C14 as stated: create_account and update_account (of a well-formed id,
\* the pool answering) given an account_type or category that parses to
\* none are rejected with a validation failure naming that field, and the
\* store is left as it was.
C14_UnparsedFieldIsRejected ==
    [][\A data \in Unparsed :
        ( /\ \/ CreateReturns /\ create_account(data)
             \/ /\ UpdateFinds
                /\ \E id \in IdTexts \ MalformedIds :
                        update_account_find(id, data)
          /\ lastResult'.db # "PoolTimedOut" )
        => RejectsField(data)]_vars

\* the command the step has left in flight
Suspended == CHOOSE task \in BagToSet(inflight') :
                inflight' = inflight (+) SetToBag({task})

\* the stored accounts the step can have addressed: the one of the command
\* it left in flight, or else the one its result is about
Addressed ==
    LET ids == IF inflight' # inflight
               THEN {Unwrap(Suspended.account).id}
               ELSE IF lastResult'.id = None THEN {}
               ELSE {Unwrap(lastResult'.id)}
    IN  {Uuid_to_string(u) : u \in ids \cap DOMAIN accounts}

\* C14 amended: create_account, and update_account of an account that has a
\* row, given an account_type or category that parses to none are rejected
\* with a validation failure naming that field, and the store is left as it
\* was.
C14_UnparsedFieldOfStoredIsRejected ==
    [][/\ (CreateReturns /\ lastResult'.db # "PoolTimedOut") =>
            \A data \in Unparsed :
                create_account(data) => RejectsField(data)
       /\ (UpdateFinds /\ lastResult'.db # "PoolTimedOut") =>
            \A data \in Unparsed, id \in Addressed :
                update_account_find(id, data) => RejectsField(data)]_vars

\* C14 witness: update_account of a stored account has been rejected for
\* its category.
C14_Witness ==
    /\ lastResult.cmd = "update_account"
    /\ ~lastResult.ok
    /\ lastResult.id # None
    /\ Unwrap(lastResult.id) \in DOMAIN accounts
    /\ lastResult.err =
            <<"A validation error occurred", ": ", "Invalid account category">>

\* NewAccountDto values whose parent reference is the empty string
EmptyParent == {LoansUnder(EmptyText)}

\* the row of id is stored without parent and every find_roots lists it
IsRoot(tbl, id) ==
    /\ id \in DOMAIN tbl
    /\ tbl[id].parent_id = None
    /\ \A s \in find_roots(tbl) : AccountFromDto(tbl[id]) \in Range(s)

\* C15: an empty-string parent reference is treated as a missing one.  A
\* step of create_account with it is the step create_account takes with no
\* parent reference, and once its INSERT has run it succeeds and stores a
\* root.  A step of update_account with it that finds the account is the
\* step taken with no parent reference and goes on with parent_id absent;
\* when its UPDATE meets the row the command succeeds and the row is a root.
C15_EmptyParentIsNoParent ==
    [][/\ CreateReturns =>
            \A data \in EmptyParent :
                create_account(data) =>
                    /\ create_account([data EXCEPT !.parent_id = None])
                    /\ lastResult'.db = "executed" =>
                        /\ lastResult'.ok
                        /\ IsRoot(accounts', Unwrap(lastResult'.id))
       /\ nCommands' = nCommands + 1 /\ inflight' # inflight =>
            LET id == Uuid_to_string(Unwrap(Suspended.account).id) IN
            \A data \in EmptyParent :
                update_account_find(id, data) =>
                    /\ update_account_find(id,
                            [data EXCEPT !.parent_id = None])
                    /\ Suspended.pc = "update_save"
                    /\ Unwrap(Suspended.account).parent_id = None
       /\ UpdateSaves =>
            \A task \in Tasks :
                ( /\ update_account_save(task)
                  /\ Unwrap(task.account).parent_id = None
                  /\ lastResult'.existed )
                => /\ lastResult'.ok
                   /\ IsRoot(accounts', Unwrap(lastResult'.id))]_vars

\* C15 witness: update_account sent with an empty-string parent reference
\* has been written to a stored account, beside another account that
\* create_account stored from one.
C15_Witness ==
    /\ lastResult.cmd = "update_account"
    /\ lastResult.ok
    /\ lastResult.existed
    /\ IsRoot(accounts, Unwrap(lastResult.id))
    /\ accounts[Unwrap(lastResult.id)].name = "Loans"
    /\ \E id \in DOMAIN accounts :
        /\ id # Unwrap(lastResult.id)
        /\ accounts[id].name = "Loans"
        /\ accounts[id].parent_id = None

\* a step of update_account or toggle_account_status addressed to a
\* well-formed id that has no row, the pool answering
AbsentIdStep ==
    /\ \E id \in IdTexts \ MalformedIds :
        /\ Unwrap(Uuid_parse_str(id)) \notin DOMAIN accounts
        /\ \/ toggle_account_status_find(id)
           \/ \E update_data \in NewAccountDtos :
                update_account_find(id, update_data)
    /\ lastResult'.db # "PoolTimedOut"

\* C16: update_account and toggle_account_status addressed to a well-formed
\* id that has no row are rejected with a NotFound failure carrying the code
\* NOT_FOUND, and the store is left as it was.
C16_AbsentIdIsNotFound ==
    [][AbsentIdStep =>
        /\ ~lastResult'.ok
        /\ accounts' = accounts
        /\ \E i \in 1..Len(lastResult'.err) :
            lastResult'.err[i] = "NOT_FOUND"]_vars

\* the value that came back from the call made, if it is a call of fn
Came(fn) == call.fn = fn /\ call.ret # None

\* C17: for each of the five AccountType variants exactly one of
\* is_debit_normal and is_credit_normal is true: Asset and Expense are
\* debit-normal, Liability, Equity and Revenue credit-normal.
C17_ExactlyOneNormalSide ==
    /\ Came("is_debit_normal") =>
        /\ Unwrap(call.ret) = (call.variant \in {"Asset", "Expense"})
        /\ Unwrap(call.ret) # is_credit_normal(call.variant)
    /\ Came("is_credit_normal") =>
        /\ Unwrap(call.ret) = (call.variant \in {"Liability", "Equity", "Revenue"})
        /\ Unwrap(call.ret) # is_debit_normal(call.variant)
        /\ Cardinality(AccountType) = 5
        /\ \A t \in AccountType : is_debit_normal(t) # is_credit_normal(t)

\* C17 witness: is_credit_normal of Expense has come back false.
C17_Witness ==
    /\ Came("is_credit_normal")
    /\ call.variant = "Expense"
    /\ call.ret = Some(FALSE)
    /\ is_debit_normal(call.variant)

\* C18: each of the twelve AccountCategory values is listed by
\* for_account_type(t) for exactly one AccountType t: the five lists are
\* pairwise disjoint and together they are the whole enumeration.
C18_CategoriesPartition ==
    Came("for_account_type") =>
        /\ Range(Unwrap(call.ret)) \subseteq AccountCategory
        /\ \A c \in Range(Unwrap(call.ret)) :
            \A u \in AccountType \ {call.variant} :
                c \notin Range(for_account_type(u))
        /\ Cardinality(AccountCategory) = 12
        /\ \A c \in AccountCategory :
            Cardinality({t \in AccountType :
                            c \in Range(for_account_type(t))}) = 1
        /\ \A t, u \in AccountType :
            t # u => Range(for_account_type(t))
                        \cap Range(for_account_type(u)) = {}
        /\ UNION {Range(for_account_type(t)) : t \in AccountType}
                = AccountCategory

\* C18 witness: for_account_type of Revenue has come back with the two
\* revenue categories.
C18_Witness ==
    /\ Came("for_account_type")
    /\ call.variant = "Revenue"
    /\ Range(Unwrap(call.ret)) = {"OperatingRevenue", "NonOperatingRevenue"}

\* C19: the parser of each enumeration gives back the variant whose
\* canonical name it is handed, for every AccountType and every
\* AccountCategory; the canonical names are pairwise distinct.
C19_RoundTrip ==
    /\ Came("AccountType::to_string") =>
        /\ AccountType_from_str(Unwrap(call.ret)) = Some(call.variant)
        /\ \A u \in AccountType \ {call.variant} :
            AccountType_to_string(u) # Unwrap(call.ret)
    /\ Came("AccountCategory::to_string") =>
        /\ AccountCategory_from_str(Unwrap(call.ret)) = Some(call.variant)
        /\ \A d \in AccountCategory \ {call.variant} :
            AccountCategory_to_string(d) # Unwrap(call.ret)
        /\ \A t \in AccountType :
            AccountType_from_str(AccountType_to_string(t)) = Some(t)
        /\ \A c \in AccountCategory :
            AccountCategory_from_str(AccountCategory_to_string(c)) = Some(c)

\* C19 witness: the canonical name of NonOperatingRevenue has been written
\* and parses back to it.
C19_Witness ==
    /\ Came("AccountCategory::to_string")
    /\ call.variant = "NonOperatingRevenue"
    /\ Unwrap(call.ret) = Us(T_NON, Us(T_OPERATING, T_REVENUE))
    /\ AccountCategory_from_str(Unwrap(call.ret)) = Some(call.variant)

\* s spells token up to case: letter for letter the capital or one of its
\* lower-case letters, a sharp s standing for a double s
RECURSIVE IsCasing(_, _)
IsCasing(s, token) ==
    IF token = <<>> THEN s = <<>>
    ELSE IF s = <<>> THEN FALSE
    ELSE \/ /\ \/ s[1] = token[1]
               \/ token[1] \in DOMAIN Lower /\ s[1] = Lower[token[1]]
               \/ token[1] = "S" /\ s[1] = LongS
               \/ token[1] = "I" /\ s[1] = DotlessI
            /\ IsCasing(Tail(s), Tail(token))
         \/ /\ s[1] = SharpS
            /\ Len(token) >= 2
            /\ token[1] = "S" /\ token[2] = "S"
            /\ IsCasing(Tail(s), Tail(Tail(token)))

\* C20: the parsers match without regard to case and always answer: a text
\* that spells a canonical token in any casing yields that token's variant,
\* every other text yields none.
C20_ParsersIgnoreCase ==
    /\ Came("AccountType::from_str") =>
        LET spelt == {t \in AccountType :
                        IsCasing(call.text, AccountType_to_string(t))}
        IN  /\ \A t \in spelt : Unwrap(call.ret) = Some(t)
            /\ spelt = {} => Unwrap(call.ret) = None
            /\ AccountType_from_str(L_asset) = Some("Asset")
            /\ AccountType_from_str(T_ASSET) = Some("Asset")
            /\ AccountType_from_str(L_bogus) = None
    /\ Came("AccountCategory::from_str") =>
        LET spelt == {c \in AccountCategory :
                        IsCasing(call.text, AccountCategory_to_string(c))}
        IN  /\ \A c \in spelt : Unwrap(call.ret) = Some(c)
            /\ spelt = {} => Unwrap(call.ret) = None

\* C20 witness: "Long_Term_Liability" has been parsed to LongTermLiability.
C20_Witness ==
    /\ Came("AccountCategory::from_str")
    /\ call.text = <<"L","o","n","g","_","T","e","r","m","_",
                    "L","i","a","b","i","l","i","t","y">>
    /\ call.ret = Some(Some("LongTermLiability"))

\* the rows a step keeps
Kept == DOMAIN accounts \cap DOMAIN accounts'

\* C21: with the clock never running backwards, no step moves the
\* updated_at of a row backwards: every write of update_account,
\* toggle_account_status and update_balance stamps the row with a time not
\* before the one it carries.
C21_UpdatedAtNeverMovesBack ==
    [][\A id \in Kept :
        accounts'[id].updated_at >= accounts[id].updated_at]_vars

\* C22: a row keeps its id and its created_at for as long as it is stored:
\* no step of update_account, toggle_account_status or update_balance (nor
\* any other) alters either, and every row sits under its own id.
C22_IdAndCreatedAtFixed ==
    [][/\ \A id \in Kept :
            /\ accounts'[id].id = accounts[id].id
            /\ accounts'[id].created_at = accounts[id].created_at
       /\ \A id \in DOMAIN accounts' : accounts'[id].id = id]_vars

\* C22 witness: a row created at one time has been written by a general
\* update and had its balance incremented, and carries a later updated_at.
C22_Witness ==
    \E id \in DOMAIN accounts :
        /\ id \in overwritten
        /\ incSum[id] # 0
        /\ accounts[id].updated_at > accounts[id].created_at

\* what a call of Account::update_balance with amount does to the account
\* held: the amount is added to the balance exactly, whatever its sign and
\* whatever the sign of the sum; the balance is the sum of all the amounts
\* applied since Account::new; nothing but balance and updated_at changes
AddsExactly(amount) ==
    LET before == Unwrap(held)
        after == Unwrap(held')
    IN  /\ after.balance = before.balance + amount
        /\ after.balance = incSum'[after.id]
        /\ after = [before EXCEPT !.balance = after.balance,
                                  !.updated_at = after.updated_at]

\* C23 as stated: update_balance adds exactly, and updated_at increases with
\* each call.
C23_ExactSumAndLaterStamp ==
    [][\A amount \in AdjustAmounts :
        entity_update_balance(amount) =>
            /\ AddsExactly(amount)
            /\ Unwrap(held').updated_at > Unwrap(held).updated_at]_vars

\* C23 amended: update_balance adds exactly, and sets updated_at to the
\* clock reading of the call, which is never before the one it replaces.
C23_ExactSumAndCurrentStamp ==
    [][\A amount \in AdjustAmounts :
        entity_update_balance(amount) =>
            /\ AddsExactly(amount)
            /\ Unwrap(held').updated_at = now
            /\ Unwrap(held').updated_at >= Unwrap(held).updated_at]_vars

\* C23 witness: +100.50 and -30.25 have been applied to a fresh account,
\* which stands at 70.25 and was stamped after its creation.
C23_Witness ==
    /\ held # None
    /\ nCommands = 2
    /\ Unwrap(held).balance = 7025
    /\ Unwrap(held).updated_at > Unwrap(held).created_at

\* C24: when toggle_account_status writes and succeeds, the row it met has
\* its is_active negated and, updated_at apart, every other column as the
\* store held it immediately before the write, whatever ran between the
\* command's read and its write.
C24_ToggleFlipsOnlyIsActive ==
    [][\A task \in Tasks :
        ( /\ toggle_account_status_save(task)
          /\ lastResult'.ok
          /\ lastResult'.existed )
        => LET id == Unwrap(task.account).id IN
           accounts'[id] =
                [accounts[id] EXCEPT
                    !.is_active = ~@,
                    !.updated_at = accounts'[id].updated_at]]_vars

\* the step is one on which delete_account returns from an executed DELETE
DeleteReturns ==
    /\ nCommands' = nCommands + 1
    /\ lastResult'.cmd = "delete_account"
    /\ lastResult'.ok

\* the rows of tbl that name id as their parent
ChildrenOf(tbl, id) == {j \in DOMAIN tbl : tbl[j].parent_id = Some(id)}

\* C25: delete removes exactly the row of the id and leaves every other row
\* as it was; the rows that name the id as parent keep doing so, are still
\* listed by find_children of the id and are listed by no find_roots.
C25_DeleteDoesNotCascade ==
    [][DeleteReturns =>
        LET id == Unwrap(lastResult'.id) IN
        /\ DOMAIN accounts' = DOMAIN accounts \ {id}
        /\ \A j \in DOMAIN accounts' : accounts'[j] = accounts[j]
        /\ ChildrenOf(accounts', id) = ChildrenOf(accounts, id) \ {id}
        /\ \A j \in ChildrenOf(accounts', id) :
            /\ \A s \in find_children(accounts', id) :
                    AccountFromDto(accounts'[j]) \in Range(s)
            /\ \A s \in find_roots(accounts') :
                    AccountFromDto(accounts'[j]) \notin Range(s)]_vars

\* C25 witness: delete has removed a row that another row names as parent.
C25_Witness ==
    /\ lastResult.cmd = "delete_account"
    /\ lastResult.ok
    /\ lastResult.existed
    /\ lastResult.changed
    /\ ChildrenOf(accounts, Unwrap(lastResult.id)) # {}

\* C26: update_account writes a present parent_id only after finding that
\* account in the store: on every write of update_account that meets its
\* row, a parent_id that is present is the id of a row the store holds or
\* has held (as any row found when the input was validated must be).
C26_ParentResolvedBeforeWrite ==
    [][UpdateSaves =>
        \A task \in Tasks :
            ( /\ update_account_save(task)
              /\ lastResult'.ok
              /\ lastResult'.existed
              /\ Unwrap(task.account).parent_id # None )
            => Unwrap(Unwrap(task.account).parent_id)
                    \in DOMAIN accounts \cup deleted]_vars

\* the columns a general update writes, updated_at apart
SameFields(row, dto) ==
    /\ row.code = dto.code
    /\ row.name = dto.name
    /\ row.description = dto.description
    /\ row.account_type = dto.account_type
    /\ row.category = dto.category
    /\ row.subcategory = dto.subcategory
    /\ row.parent_id = dto.parent_id
    /\ row.balance = dto.balance

\* C27: a write of update_account or toggle_account_status that meets its
\* row succeeds and stores what the command read, whatever the store holds
\* by then: update_account leaves is_active and balance as it read them,
\* toggle_account_status leaves every field as it read it and is_active
\* negated.  What another command wrote between the read and the write is
\* therefore lost, and both commands return success.
C27_WriterStoresWhatItRead ==
    [][nCommands' = nCommands =>
        \A task \in Tasks :
            LET read == Unwrap(task.read)
                id == read.id
            IN  /\ (update_account_save(task) /\ lastResult'.existed) =>
                    /\ lastResult'.ok
                    /\ accounts'[id].is_active = read.is_active
                    /\ accounts'[id].balance = read.balance
                /\ (toggle_account_status_save(task) /\ lastResult'.existed) =>
                    /\ lastResult'.ok
                    /\ accounts'[id].is_active = ~read.is_active
                    /\ SameFields(accounts'[id], DtoFromAccount(read))]_vars

\* C27 witness: update_account has returned success from a write that met
\* the row with an is_active other than the one it had read (a write of
\* another command came between its read and its write), and the row now
\* has the is_active it had read: the other writer's change is gone.
C27_Witness ==
    /\ lastResult.cmd = "update_account"
    /\ lastResult.ok
    /\ lastResult.existed
    /\ Unwrap(lastResult.met).is_active # Unwrap(lastResult.read).is_active
    /\ Unwrap(lastResult.id) \in DOMAIN accounts
    /\ accounts[Unwrap(lastResult.id)].is_active
            = Unwrap(lastResult.read).is_active

\* the row holds the canonical token of a type and of a category, so that
\* From<AccountDto> decodes both without its fallback
Canonical(row) ==
    /\ row.account_type \in {AccountType_to_string(t) : t \in AccountType}
    /\ row.category \in {AccountCategory_to_string(c) : c \in AccountCategory}
    /\ AccountType_from_str(row.account_type) # None
    /\ AccountCategory_from_str(row.category) # None

\* the row decodes to the type and category of account
DecodesTo(row, account_type, category) ==
    /\ AccountFromDto(row).account_type = account_type
    /\ AccountFromDto(row).category = category

\* C28: every row of the store holds canonical tokens; the row a write of
\* create_account, update_account or toggle_account_status leaves decodes
\* to exactly the type and category the command wrote.
C28_RowsDecodeAsWritten ==
    [][/\ \A id \in DOMAIN accounts' : Canonical(accounts'[id])
       /\ (CreateReturns /\ lastResult'.ok) =>
            \A data \in NewAccountDtos :
                create_account(data) =>
                    DecodesTo(accounts'[Unwrap(lastResult'.id)],
                              Unwrap(AccountType_from_str(data.account_type)),
                              Unwrap(AccountCategory_from_str(data.category)))
       /\ nCommands' = nCommands =>
            \A task \in Tasks :
                ( /\ \/ update_account_save(task)
                     \/ toggle_account_status_save(task)
                  /\ lastResult'.ok
                  /\ lastResult'.existed )
                => DecodesTo(accounts'[Unwrap(task.account).id],
                             Unwrap(task.account).account_type,
                             Unwrap(task.account).category)]_vars

\* C28 witness: a row written by update_account or toggle_account_status
\* holds LIABILITY / CURRENT_LIABILITY and decodes to Liability /
\* CurrentLiability, not to the fallback.
C28_Witness ==
    \E id \in overwritten \cap DOMAIN accounts :
        /\ accounts[id].account_type = T_LIABILITY
        /\ accounts[id].category = T_CURRENT_LIABILITY
        /\ DecodesTo(accounts[id], "Liability", "CurrentLiability")

\* C29: a row comes into existence only on the step where create_account
\* returns Ok, under an id never issued and never deleted before; no step
\* of a command in flight or started later leaves a row under an id whose
\* delete has completed.
C29_NoResurrection ==
    [][/\ \A id \in DOMAIN accounts' \ DOMAIN accounts :
            /\ id \notin issued \cup deleted
            /\ lastResult'.cmd = "create_account"
            /\ lastResult'.ok
            /\ lastResult'.id = Some(id)
       /\ deleted' \cap DOMAIN accounts' = {}]_vars

\* C29 witness: toggle_account_status read an account, the account was
\* deleted, and the toggle has written its stale copy and returned: the id
\* has no row.
C29_Witness ==
    /\ lastResult.cmd = "toggle_account_status"
    /\ lastResult.db = "executed"
    /\ lastResult.ok
    /\ lastResult.read # None
    /\ lastResult.met = None
    /\ Unwrap(lastResult.id) \in deleted \ DOMAIN accounts

\* the backend's list for a type, written as the tokens the frontend shows
BackendTokens(account_type) ==
    [i \in DOMAIN for_account_type(account_type) |->
        AccountCategory_to_string(for_account_type(account_type)[i])]

\* the frontend's two type-to-category tables list, for each of the five
\* types, what the backend's for_account_type lists, in the same order
TablesAgree ==
    /\ DOMAIN category_map = {AccountType_to_string(t) : t \in AccountType}
    /\ \A t \in AccountType :
        /\ category_map[AccountType_to_string(t)] = BackendTokens(t)
        /\ get_categories_for_type(AccountType_to_string(t)) = BackendTokens(t)

\* C30: whatever the user does at the account creation form (type changes,
\* category selections among the options offered, submits and the reset
\* after a successful one), the form's category is one the backend's
\* for_account_type lists for the form's type; and the frontend's two
\* type-to-category tables equal the backend's for all five types.
C30_FormCategoryFitsType ==
    /\ LET account_type == AccountType_from_str(form.account_type)
           category == AccountCategory_from_str(form.category)
       IN  /\ account_type # None
           /\ category # None
           /\ Unwrap(category) \in Range(for_account_type(Unwrap(account_type)))
    /\ TablesAgree

\* a liability created from the form with a category selected by hand, the
\* form reset by that success, reopened and moved on to another type
C30_Witness ==
    /\ \E id \in DOMAIN accounts :
        accounts[id].category = T_LONG_TERM_LIABILITY
    /\ lastResult.cmd = "create_account" /\ lastResult.ok
    /\ form.show_form
    /\ form.account_type = T_EXPENSE
    /\ form.category = T_NON_OPERATING_EXPENSE

====
